---- MODULE Spec2Model ----
(***************************************************************************)
(* CubeAI response generator: brain.json loading, order-2 Markov model     *)
(* construction, intent detection, four-candidate generation and scoring.  *)
(*                                                                         *)
(* The repository keeps several generations of server.js.  The pipeline    *)
(* server (src/unnamed/part_002) is modelled by Spec; the earlier servers  *)
(* are modelled over the same variables:                                   *)
(*   SpecV3     src/server.js 326-625 (Turbo V3): loads and /generate      *)
(*   SpecLite   src/server.js 627-833 (lightweight server): loads and      *)
(*              /generate                                                  *)
(*   SpecBuild  the model builders of part_002, part_000 and server.js     *)
(*              as functions of a corpus                                   *)
(*   SpecLoad   loadBrain of part_002 on a document and on the same        *)
(*              document wrapped under `brain`                             *)
(*                                                                         *)
(* A JavaScript string is a sequence of one-character strings, so that     *)
(* split, join, trim, includes and toLowerCase are computed, not assumed.  *)
(***************************************************************************)
EXTENDS Integers, Sequences, FiniteSets, TLC

VARIABLES
  RAW,              \* part_002:49      full parsed brain.json
  BRAIN,            \* part_002:50      the brain object
  GLOBAL_KEYWORDS,  \* part_002:51      keywords_global (server.js:356 KEYWORDS)
  MARKOV,           \* part_002:52      { order, map }
  pc,               \* position of the event loop's current task
  console,          \* what the last load wrote: "none", "log" or "error"
  lastDoc,          \* the file content the last load read (history)
  reloads,          \* fs.watchFile callbacks run so far, counted up to MaxReloads (history)
  req,              \* the request being served: prompt, maxTokens
  intent,           \* createAndRankCandidates: const intent
  cands,            \* createAndRankCandidates: const cands
  walk,             \* the running generateMarkov call: key, out, i
  res               \* the response sent for the request, and the sorted local `scored'

vars == <<RAW, BRAIN, GLOBAL_KEYWORDS, MARKOV, pc, console, lastDoc, reloads,
          req, intent, cands, walk, res>>

(***************************************************************************)
(* Strings                                                                 *)
(***************************************************************************)
SP  == " "
NL  == "\n"
\* "\u0001", the separator of a context key's tokens
SEP == "U+0001"
WS  == {SP, NL}

START == <<"^", "S", "T", "A", "R", "T">>
END   == <<"^", "E", "N", "D">>

Lower(c) ==
  CASE c = "A" -> "a" [] c = "B" -> "b" [] c = "C" -> "c" [] c = "D" -> "d"
    [] c = "K" -> "k" [] c = "L" -> "l" [] c = "F" -> "f" [] c = "S" -> "s"
    [] OTHER -> c

Upper(c) ==
  CASE c = "a" -> "A" [] c = "b" -> "B" [] c = "c" -> "C" [] c = "d" -> "D"
    [] c = "k" -> "K" [] c = "l" -> "L" [] c = "f" -> "F" [] c = "s" -> "S"
    [] OTHER -> c

\* String.prototype.toLowerCase
toLowerCase(s) == [i \in 1..Len(s) |-> Lower(s[i])]

RECURSIVE SplitAcc(_, _, _, _)
SplitAcc(s, c, cur, acc) ==
  IF s = <<>> THEN Append(acc, cur)
  ELSE IF Head(s) = c THEN SplitAcc(Tail(s), c, <<>>, Append(acc, cur))
  ELSE SplitAcc(Tail(s), c, Append(cur, Head(s)), acc)

\* String.prototype.split(c) for a one-character separator c
split(s, c) == SplitAcc(s, c, <<>>, <<>>)

RECURSIVE join(_, _)
\* Array.prototype.join(sep), sep a string
join(a, sep) ==
  IF a = <<>> THEN <<>>
  ELSE IF Len(a) = 1 THEN a[1]
  ELSE a[1] \o sep \o join(Tail(a), sep)

\* Array.prototype.filter(Boolean) on an array of strings
filterBoolean(a) == SelectSeq(a, LAMBDA x : x # <<>>)

RECURSIVE CollapseWs(_, _)
\* String.prototype.replace(/\s+/g, " ")
CollapseWs(s, inRun) ==
  IF s = <<>> THEN <<>>
  ELSE IF Head(s) \in WS
       THEN (IF inRun THEN <<>> ELSE <<SP>>) \o CollapseWs(Tail(s), TRUE)
       ELSE <<Head(s)>> \o CollapseWs(Tail(s), FALSE)

RECURSIVE TrimLeft(_)
TrimLeft(s) == IF s # <<>> /\ Head(s) \in WS THEN TrimLeft(Tail(s)) ELSE s

RECURSIVE TrimRight(_)
TrimRight(s) ==
  IF s # <<>> /\ s[Len(s)] \in WS THEN TrimRight(SubSeq(s, 1, Len(s) - 1)) ELSE s

\* String.prototype.trim
trim(s) == TrimRight(TrimLeft(s))

\* String.prototype.includes
includes(hay, needle) ==
  \E i \in 0..(Len(hay) - Len(needle)) : SubSeq(hay, i + 1, i + Len(needle)) = needle

\* String.prototype.startsWith
startsWith(s, p) == Len(p) <= Len(s) /\ SubSeq(s, 1, Len(p)) = p

\* text.replace(/\s+/g, " ").trim().split(" ").filter(Boolean)
Words(text) == filterBoolean(split(trim(CollapseWs(text, FALSE)), SP))

\* Array.prototype.slice(from) and slice(from, to), zero-based as in JavaScript
sliceFrom(a, from) == SubSeq(a, from + 1, Len(a))
slice(a, from, to) == SubSeq(a, from + 1, IF to < Len(a) THEN to ELSE Len(a))

RECURSIVE flat(_)
\* Array.prototype.flat of an array of arrays
flat(a) == IF a = <<>> THEN <<>> ELSE Head(a) \o flat(Tail(a))

(***************************************************************************)
(* brain.json documents                                                    *)
(***************************************************************************)
\* One entry of `intents`.  A missing array field and an empty one are read
\* alike by every server (intent.x || []), so both are the empty sequence.
\* isNull: the entry's value is JSON null.
Intent(name, triggers, keywords, examples, responses) ==
  [name |-> name, isNull |-> FALSE, triggers |-> triggers, keywords |-> keywords,
   examples |-> examples, responses |-> responses]

NullIntent(name) ==
  [name |-> name, isNull |-> TRUE, triggers |-> <<>>, keywords |-> <<>>,
   examples |-> <<>>, responses |-> <<>>]

\* A brain object: intents in key order, keywords_global in key order,
\* keywords (Turbo V3: intent name -> words).
Brain(hasIntents, intents, kg, keywords) ==
  [isNull |-> FALSE, hasIntents |-> hasIntents, intents |-> intents,
   keywords_global |-> kg, keywords |-> keywords]

\* { intents: {} }
EmptyBrain == Brain(TRUE, <<>>, <<>>, <<>>)

\* The file brain.json: unreadable, not JSON, the JSON text null, or an object.
\* An object either is the brain or wraps it under `brain`; a wrapper has its
\* own top-level keywords_global.
FileUnreadable == [kind |-> "unreadable", wrapped |-> FALSE, top_kg |-> <<>>, brain |-> EmptyBrain]
FileMalformed  == [kind |-> "malformed", wrapped |-> FALSE, top_kg |-> <<>>, brain |-> EmptyBrain]
FileNull       == [kind |-> "null", wrapped |-> FALSE, top_kg |-> <<>>, brain |-> EmptyBrain]
FileObject(brain) == [kind |-> "object", wrapped |-> FALSE, top_kg |-> <<>>, brain |-> brain]
FileWrapped(brain, top_kg) == [kind |-> "object", wrapped |-> TRUE, top_kg |-> top_kg, brain |-> brain]

s_a    == <<"a">>
s_b    == <<"b">>
s_c    == <<"c">>
s_d    == <<"d">>
s_g    == <<"g">>
s_h    == <<"h">>
s_k    == <<"k">>
s_K    == <<"K">>
s_ab   == <<"a", " ", "b">>
s_abc  == <<"a", " ", "b", " ", "c">>
s_abd  == <<"a", " ", "b", " ", "d">>
s_aaa  == <<"a", " ", "a", " ", "a">>
s_ccc  == <<"c", " ", "c", " ", "c">>
s_c_d  == <<"c", " ", " ", "d", "\n">>
s_cd   == <<"c", " ", "d">>
s_x    == <<"x">>
s_empty == <<>>

\* {"intents":{"g":{"triggers":["a"],"keywords":["b"],"examples":["a b c","a b d"]}}}
DocGreet ==
  FileObject(Brain(TRUE, <<Intent(s_g, <<s_a>>, <<s_b>>, <<s_abc, s_abd>>, <<>>)>>, <<>>, <<>>))

\* {"brain":{"intents":{"h":{"keywords":["K"],"responses":["c  d\n"]}}},
\*  "keywords_global":{"k":["d"]}}
DocWrapped ==
  FileWrapped(Brain(TRUE, <<Intent(s_h, <<>>, <<s_K>>, <<>>, <<s_c_d>>)>>, <<>>, <<>>),
              <<[name |-> s_k, words |-> <<s_d>>]>>)

\* {"intents":{"g":{"examples":["a b c"]},"h":{"triggers":["c"],"examples":["c d"]}}}
DocTwo ==
  FileObject(Brain(TRUE, <<Intent(s_g, <<>>, <<>>, <<s_abc>>, <<>>),
                           Intent(s_h, <<s_c>>, <<>>, <<s_cd>>, <<>>)>>, <<>>, <<>>))

\* {"intents":{"g":{"examples":["a"]}}}
DocShort ==
  FileObject(Brain(TRUE, <<Intent(s_g, <<>>, <<>>, <<s_a>>, <<>>)>>, <<>>, <<>>))

\* {"intents":{}}
DocZero == FileObject(EmptyBrain)

\* {"keywords_global":{"k":["d"]}}
DocNoIntents ==
  FileObject(Brain(FALSE, <<>>, <<[name |-> s_k, words |-> <<s_d>>]>>, <<>>))

\* {"intents":{"g":{"examples":["a b c"]},"h":null}}
DocNullIntent ==
  FileObject(Brain(TRUE, <<Intent(s_g, <<>>, <<>>, <<s_abc>>, <<>>), NullIntent(s_h)>>,
                   <<>>, <<>>))

\* {"intents":{"g":{"keywords":["a"],"examples":["a a a"]}},"keywords":{"g":["a","b"]}}
DocLoop ==
  FileObject(Brain(TRUE, <<Intent(s_g, <<>>, <<s_a>>, <<s_aaa>>, <<>>)>>, <<>>,
                   <<[name |-> s_g, words |-> <<s_a, s_b>>]>>))

\* {"intents":{"h":{"triggers":["c"],"keywords":["c"],"responses":["c c c"]}}}
DocLoopResp ==
  FileObject(Brain(TRUE, <<Intent(s_h, <<s_c>>, <<s_c>>, <<>>, <<s_ccc>>)>>, <<>>, <<>>))

\* {"intents":{"g":{"examples":["a b"]}},"keywords":{"g":["b"]}}
DocKeywords ==
  FileObject(Brain(TRUE, <<Intent(s_g, <<>>, <<>>, <<s_ab>>, <<>>)>>, <<>>,
                   <<[name |-> s_g, words |-> <<s_b>>]>>))

\* {"keywords":{"h":["c"]}}
DocKeywordsOnly ==
  FileObject(Brain(FALSE, <<>>, <<>>, <<[name |-> s_h, words |-> <<s_c>>]>>))

\* {"intents":{"g":{"triggers":["a"],"examples":["a b"]}},"keywords":{"g":["b","a"]}}
DocExpand ==
  FileObject(Brain(TRUE, <<Intent(s_g, <<s_a>>, <<>>, <<s_ab>>, <<>>)>>, <<>>,
                   <<[name |-> s_g, words |-> <<s_b, s_a>>]>>))

GoodDocs == {DocGreet, DocWrapped, DocTwo, DocShort, DocZero, DocNoIntents, DocLoop,
             DocLoopResp}
BadDocs  == {FileUnreadable, FileMalformed, FileNull, DocNullIntent}
Docs     == GoodDocs \cup BadDocs
DocsV3   == Docs \cup {DocKeywords, DocKeywordsOnly, DocExpand}

(***************************************************************************)
(* JavaScript values of the model state                                    *)
(***************************************************************************)
\* null
NullBrain ==
  [isNull |-> TRUE, hasIntents |-> FALSE, intents |-> <<>>, keywords_global |-> <<>>,
   keywords |-> <<>>]
NullValue == [kind |-> "null", wrapped |-> FALSE, top_kg |-> <<>>, brain |-> EmptyBrain]

\* { order: 2, map: new Map() }; a Map is its entries in insertion order
\* isMap: MARKOV.map is a Map (it has size, keys and get)
Markov(map) == [isNull |-> FALSE, isMap |-> TRUE, order |-> 2, map |-> map]
EmptyMarkov == Markov(<<>>)
NullMarkov  == [isNull |-> TRUE, isMap |-> FALSE, order |-> 0, map |-> <<>>]

\* server.js:676  { order: 2, map: {} }: the map is a plain object
ObjectMarkov == [isNull |-> FALSE, isMap |-> FALSE, order |-> 2, map |-> <<>>]

\* Map.prototype.has / get / keys
mapHas(map, key) == \E j \in 1..Len(map) : map[j].key = key
mapGet(map, key) ==
  IF mapHas(map, key)
  THEN map[CHOOSE j \in 1..Len(map) : map[j].key = key].choices
  ELSE <<>>
mapKeys(map) == [j \in 1..Len(map) |-> map[j].key]

\* if (!map.has(key)) map.set(key, []); map.get(key).push(next)
mapPush(map, key, next) ==
  IF mapHas(map, key)
  THEN [j \in 1..Len(map) |->
          IF map[j].key = key
          THEN [key |-> key, choices |-> Append(map[j].choices, next)]
          ELSE map[j]]
  ELSE Append(map, [key |-> key, choices |-> <<next>>])

(***************************************************************************)
(* part_002: buildMarkovFromExamples and loadBrain                         *)
(***************************************************************************)
order == 2

\* brain.intents || {}
intentsOf(brain) == IF brain.hasIntents THEN brain.intents ELSE <<>>

\* part_002:91  pad.slice(i, i + order).join("\u0001")
FeedKeyWide(pad, i) == join(slice(pad, i, i + order + 1), <<SEP>>)
FeedKey(pad, i) == join(slice(pad, i, i + order), <<SEP>>)

\* part_002:92  pad[i + order]
FeedNext(pad, i) == pad[i + order + 1]

RECURSIVE FeedLoop(_, _, _, _)
\* part_002:90-95  for (let i = 0; i <= last; i++) { ... push(next) }
FeedLoop(map, pad, i, last) ==
  IF i > last THEN map
  ELSE FeedLoop(mapPush(map, FeedKey(pad, i), FeedNext(pad, i)), pad, i + 1, last)

\* part_002:81-96
feed(map, text) ==
  IF text = <<>> THEN map
  ELSE LET words == Words(text) IN
       IF Len(words) = 0 THEN map
       ELSE LET pad == <<START>> \o words \o <<END>> IN
            FeedLoop(map, pad, 0, Len(pad) - order - 1)

RECURSIVE feedEach(_, _)
\* texts.forEach(e => feed(String(e)))
feedEach(map, texts) ==
  IF texts = <<>> THEN map ELSE feedEach(feed(map, Head(texts)), Tail(texts))

RECURSIVE feedIntents(_, _)
\* part_002:99-104  examples, and responses only when there are no examples
feedIntents(map, intents) ==
  IF intents = <<>> THEN map
  ELSE LET it == Head(intents)
           m1 == feedEach(map, it.examples)
           m2 == IF Len(it.examples) = 0 THEN feedEach(m1, it.responses) ELSE m1
       IN feedIntents(m2, Tail(intents))

\* A bug this builder does not have: feeding into the live map instead of a new Map()
buildMarkovIncremental(brain) == Markov(feedIntents(MARKOV.map, intentsOf(brain)))

\* part_002:77-107  the value assigned to MARKOV
buildMarkovFromExamples(brain) == Markov(feedIntents(<<>>, intentsOf(brain)))

\* intent.examples of a null intent: TypeError
buildThrows(brain) == \E j \in 1..Len(intentsOf(brain)) : intentsOf(brain)[j].isNull

\* fs.readFileSync or JSON.parse throws
readThrows(d) == d.kind \in {"unreadable", "malformed"}

\* part_002:62  RAW.keywords_global || {}
rawKeywordsGlobal(d) == IF d.wrapped THEN d.top_kg ELSE d.brain.keywords_global

\* part_002:58-64: does the try block throw on file content d
loadThrows(d) == readThrows(d) \/ d.kind = "null" \/ buildThrows(d.brain)

\* part_002:57-72
loadBrain(d) ==
  /\ lastDoc' = d
  /\ IF loadThrows(d)
     THEN /\ RAW' = NullValue
          /\ BRAIN' = EmptyBrain
          /\ GLOBAL_KEYWORDS' = <<>>
          /\ MARKOV' = EmptyMarkov
          /\ console' = "error"
     ELSE /\ RAW' = d
          /\ BRAIN' = d.brain
          /\ GLOBAL_KEYWORDS' = rawKeywordsGlobal(d)
          /\ MARKOV' = buildMarkovFromExamples(d.brain)
          /\ console' = "log"

(***************************************************************************)
(* part_000: buildMarkov                                                   *)
(***************************************************************************)
RECURSIVE FeedLoopV1(_, _, _, _)
\* part_000:68-73  next = padded[i + order] || "^END"
FeedLoopV1(map, pad, i, last) ==
  IF i > last THEN map
  ELSE LET next == IF i + order + 1 <= Len(pad) THEN pad[i + order + 1] ELSE END IN
       FeedLoopV1(mapPush(map, FeedKey(pad, i), next), pad, i + 1, last)

\* part_000:62-74
feedTextV1(map, text) ==
  IF text = <<>> THEN map
  ELSE LET tokens == Words(text) IN
       IF Len(tokens) = 0 THEN map
       ELSE LET padded == <<START>> \o tokens \o <<END>> IN
            FeedLoopV1(map, padded, 0, Len(padded) - order)

RECURSIVE feedEachV1(_, _)
feedEachV1(map, texts) ==
  IF texts = <<>> THEN map ELSE feedEachV1(feedTextV1(map, Head(texts)), Tail(texts))

RECURSIVE feedIntentsV1(_, _)
\* part_000:77-80
feedIntentsV1(map, intents) ==
  IF intents = <<>> THEN map
  ELSE feedIntentsV1(feedEachV1(map, Head(intents).examples), Tail(intents))

\* part_000:58-84
buildMarkovV1(brain) == Markov(feedIntentsV1(<<>>, intentsOf(brain)))

(***************************************************************************)
(* server.js (Turbo V3): buildMarkov and safeLoadBrain                     *)
(***************************************************************************)
\* server.js:387  text.split(/\s+/).filter(Boolean)
splitWs(text) == filterBoolean(split(CollapseWs(text, FALSE), SP))

\* server.js:385-395
feedV3(map, text) ==
  IF text = <<>> THEN map
  ELSE LET padded == <<START>> \o splitWs(text) \o <<END>> IN
       FeedLoop(map, padded, 0, Len(padded) - order - 1)

RECURSIVE feedEachV3(_, _)
feedEachV3(map, texts) ==
  IF texts = <<>> THEN map ELSE feedEachV3(feedV3(map, Head(texts)), Tail(texts))

RECURSIVE feedIntentsV3(_, _)
\* server.js:397-399
feedIntentsV3(map, intents) ==
  IF intents = <<>> THEN map
  ELSE feedIntentsV3(feedEachV3(map, Head(intents).examples), Tail(intents))

\* server.js:381-402
buildMarkovV3(brain) == Markov(feedIntentsV3(<<>>, brain.intents))

\* Object.values(brain.intents) of a missing intents, or intent.examples of null
buildThrowsV3(brain) == ~brain.hasIntents \/ buildThrows(brain)

\* server.js:362-376.  The catch block assigns BRAIN only: KEYWORDS keeps what
\* line 368 assigned before the throw, MARKOV keeps the previous model.
safeLoadBrainV3(d) ==
  /\ lastDoc' = d
  /\ UNCHANGED RAW
  /\ IF readThrows(d) \/ d.kind = "null"
     THEN /\ BRAIN' = EmptyBrain
          /\ UNCHANGED <<GLOBAL_KEYWORDS, MARKOV>>
          /\ console' = "error"
     ELSE IF buildThrowsV3(d.brain)
     THEN /\ BRAIN' = EmptyBrain
          /\ GLOBAL_KEYWORDS' = d.brain.keywords
          /\ UNCHANGED MARKOV
          /\ console' = "error"
     ELSE /\ BRAIN' = d.brain
          /\ GLOBAL_KEYWORDS' = d.brain.keywords
          /\ MARKOV' = buildMarkovV3(d.brain)
          /\ console' = "log"

(***************************************************************************)
(* part_002: generateMarkov, one loop iteration per step                   *)
(***************************************************************************)
FALLBACK    == <<"f", "a", "l", "l", "b", "a", "c", "k">>
t_matters   == <<" ", "m", "a", "t", "t", "e", "r", "s", " ", "m", "o", "s", "t", ":", " ">>
t_focus     == <<"F", "o", "c", "u", "s", " ", "o", "n", " ">>
t_refine    == <<" ", "a", "n", "d", " ", "r", "e", "f", "i", "n", "e", " ">>
t_small     == <<"S", "m", "a", "l", "l", " ", "i", "t", "e", "r", "a", "t", "i", "o", "n", "s", ":", " ">>
t_keypoints == <<"K", "e", "y", " ", "p", "o", "i", "n", "t", "s", ":", " ">>
t_ask       == <<".", " ", "A", "s", "k", " ", "m", "e", " ", "t", "o", " ", "e", "x", "p", "a", "n", "d", " ", "o", "n", " ", "a", "n", "y", " ", "o", "f", " ", "t", "h", "e", "s", "e", ".">>
t_think     == <<"L", "e", "t", " ", "m", "e", " ", "t", "h", "i", "n", "k", " ", "a", "b", "o", "u", "t", " ">>
t_more      == <<"m", "o", "r", "e">>

Min(a, b) == IF a < b THEN a ELSE b
Max(a, b) == IF a > b THEN a ELSE b
Range(f) == {f[x] : x \in DOMAIN f}

NoReq  == [prompt |-> <<>>, maxTokens |-> 0]
NoWalk == [key |-> <<>>, out |-> <<>>, i |-> 0, max |-> 0, seed |-> <<>>]
NoRes  == [sent |-> FALSE, status |-> 0, intent |-> <<>>, candidates |-> <<>>,
           chosenIndex |-> 0, chosen |-> <<>>, scored |-> <<>>]

\* part_002:113  !MARKOV || !MARKOV.map || MARKOV.map.size === 0
markovEmpty == MARKOV.isNull \/ Len(MARKOV.map) = 0

\* part_002:119-125  the keys the walk may start from
startKeys(prompt) ==
  LET tokens == Words(prompt)
      keys   == Range(mapKeys(MARKOV.map))
      starts == {k \in keys : startsWith(k, START)}
  IN IF Len(tokens) >= order
     THEN {join(sliceFrom(tokens, Len(tokens) - order), <<SEP>>)}
     ELSE IF starts # {} THEN starts ELSE keys

\* A bug the walk does not have: keeping the first token of the key
slideKeyKeepFirst(key, pick) == join(<<Head(split(key, SEP)), pick>>, <<SEP>>)

\* part_002:134-136  drop the key's first token, append the pick
slideKey(key, pick) == join(Append(sliceFrom(split(key, SEP), 1), pick), <<SEP>>)

\* part_002:129  map.get(key), undefined read as no choices
choicesOf(key) == mapGet(MARKOV.map, key)

\* part_002:128  the loop guard i < maxTokens
walkGuardUnbounded(w) == TRUE
walkGuard(w) == w.i < w.max

\* part_002:130,132  the breaks: no choices, or the pick is falsy or "^END"
walkBreaks(w) ==
  \/ Len(choicesOf(w.key)) = 0
  \/ \E j \in 1..Len(choicesOf(w.key)) : choicesOf(w.key)[j] \in {<<>>, END}

WalkPcs == {"walkA", "walkC", "walkF"}

\* What the caller does with generateMarkov's return value g.
\* part_002:282 (A), 200 and 290 (C), 298-299 (filler)
afterMarkov(site, g, seed) ==
  CASE site = "A" ->
         /\ cands' = IF g # <<>> THEN Append(cands, [label |-> "markov", text |-> g]) ELSE cands
         /\ pc' = "genB"
    [] site = "C" ->
         LET C == trim(seed \o (IF g # <<>> THEN <<NL>> \o g ELSE <<>>)) IN
         /\ cands' = IF C # <<>> THEN Append(cands, [label |-> "example+cont", text |-> C])
                     ELSE cands
         /\ pc' = "genD"
    [] site = "F" ->
         LET filler == IF g # <<>> THEN g ELSE t_think \o req.prompt IN
         /\ cands' = Append(cands, [label |-> "filler", text |-> filler])
         /\ pc' = "fill"

siteOf(p) == CASE p = "walkA" -> "A" [] p = "walkC" -> "C" [] p = "walkF" -> "F"
walkPcOf(site) == CASE site = "A" -> "walkA" [] site = "C" -> "walkC" [] site = "F" -> "walkF"

\* part_002:112-126  generateMarkov(prompt, maxTokens) up to its loop
callMarkov(site, prompt, maxTokens, seed) ==
  IF markovEmpty
  THEN /\ afterMarkov(site, <<>>, seed)
       /\ walk' = NoWalk
  ELSE /\ \E k \in startKeys(prompt) :
            walk' = [key |-> k, out |-> <<>>, i |-> 0, max |-> maxTokens, seed |-> seed]
       /\ pc' = walkPcOf(site)
       /\ UNCHANGED cands

\* part_002:128-137  one iteration that pushes a pick
WalkPick ==
  /\ pc \in WalkPcs
  /\ walkGuard(walk)
  /\ \E j \in 1..Len(choicesOf(walk.key)) :
       LET pick == choicesOf(walk.key)[j] IN
       /\ pick \notin {<<>>, END}
       /\ walk' = [walk EXCEPT !.out = Append(@, pick),
                               !.key = slideKey(walk.key, pick),
                               !.i = @ + 1]
  /\ UNCHANGED <<RAW, BRAIN, GLOBAL_KEYWORDS, MARKOV, pc, console, lastDoc, reloads,
                 req, intent, cands, res>>

\* part_002:128-138  the loop ends (guard false or break) and out.join(" ") returns
WalkReturn ==
  /\ pc \in WalkPcs
  /\ ~walkGuard(walk) \/ walkBreaks(walk)
  /\ afterMarkov(siteOf(pc), join(walk.out, <<SP>>), walk.seed)
  /\ walk' = NoWalk
  /\ UNCHANGED <<RAW, BRAIN, GLOBAL_KEYWORDS, MARKOV, console, lastDoc, reloads,
                 req, intent, res>>

(***************************************************************************)
(* part_002: detectIntent, the generators, scoreCandidate                  *)
(***************************************************************************)
\* (BRAIN.intents || {})[intentName] || {}
intentNamed(name) ==
  LET its == intentsOf(BRAIN)
      hit == {j \in 1..Len(its) : its[j].name = name}
  IN IF hit = {} THEN Intent(name, <<>>, <<>>, <<>>, <<>>)
     ELSE its[CHOOSE j \in hit : TRUE]

\* Object.values(GLOBAL_KEYWORDS || {}).flat()
globalKeysFlat == flat([j \in 1..Len(GLOBAL_KEYWORDS) |-> GLOBAL_KEYWORDS[j].words])

\* how many k of keys are non-empty and occur in t as a substring
CountIncluded(t, keys) ==
  Cardinality({j \in 1..Len(keys) : keys[j] # <<>> /\ includes(t, toLowerCase(keys[j]))})

\* part_002:252-265  one intent's score for the lower-cased prompt t
intentScore(t, it) ==
  5 * CountIncluded(t, it.triggers) + 2 * CountIncluded(t, it.keywords)
    + CountIncluded(t, globalKeysFlat)

\* part_002:248  let bestScore = -1
bestScoreInit == -1

RECURSIVE detectLoopLastTie(_, _, _, _)
\* A bug the loop does not have: a later intent replaces an earlier one it ties with
detectLoopLastTie(t, its, best, bestScore) ==
  IF its = <<>> THEN best
  ELSE LET score == intentScore(t, Head(its)) IN
       IF score >= bestScore
       THEN detectLoopLastTie(t, Tail(its), Head(its).name, score)
       ELSE detectLoopLastTie(t, Tail(its), best, bestScore)

RECURSIVE detectLoop(_, _, _, _)
\* part_002:250-268
detectLoop(t, its, best, bestScore) ==
  IF its = <<>> THEN best
  ELSE LET score == intentScore(t, Head(its)) IN
       IF score > bestScore
       THEN detectLoop(t, Tail(its), Head(its).name, score)
       ELSE detectLoop(t, Tail(its), best, bestScore)

\* part_002:245-271
detectIntent(prompt) ==
  detectLoop(toLowerCase(prompt), intentsOf(BRAIN), FALLBACK, bestScoreInit)

RECURSIVE unique(_)
\* [...new Set(a)]
unique(a) ==
  IF a = <<>> THEN <<>>
  ELSE <<Head(a)>> \o unique(SelectSeq(Tail(a), LAMBDA x : x # Head(a)))

\* part_002:212
capitalize(s) == IF s = <<>> THEN <<>> ELSE <<Upper(s[1])>> \o Tail(s)

\* part_002:177-191
templateJoiner(intentName) ==
  LET it         == intentNamed(intentName)
      intentKeys == slice(it.keywords, 0, 6)
      globalKeys == slice(globalKeysFlat, 0, 12)
      use        == slice(unique(intentKeys \o slice(globalKeys, 0, 6)), 0, 6)
      listed     == join(slice(use, 1, 3), <<",", SP>>)
      p1 == capitalize(use[1]) \o t_matters
              \o (IF listed # <<>> THEN listed ELSE use[1]) \o <<".">>
      p2 == t_focus \o join(slice(use, 0, 2), <<SP, "&", SP>>) \o t_refine \o use[3] \o <<".">>
      p3 == t_small \o join(sliceFrom(use, 3), <<",", SP>>) \o <<".">>
      parts == <<p1>> \o (IF Len(use) >= 3 THEN <<p2>> ELSE <<>>)
                      \o (IF Len(use) >= 4 THEN <<p3>> ELSE <<>>)
  IN IF Len(use) = 0 THEN <<>> ELSE join(parts, <<SP>>)

\* part_002:204-210
keywordSummary(intentName) ==
  LET keys   == slice(intentNamed(intentName).keywords, 0, 6)
      joined == join([j \in 1..Len(keys) |-> toLowerCase(keys[j])], <<",", SP>>)
  IN IF Len(keys) = 0 THEN <<>> ELSE t_keypoints \o joined \o t_ask

\* the characters of the model's alphabet outside \w and \s
NonWordChars == {",", ".", ":", "&", "^", SEP}

\* part_002:144-146  tokenize
tokenize(s) ==
  LET low == toLowerCase(s)
      rep == [j \in 1..Len(low) |-> IF low[j] \in NonWordChars THEN SP ELSE low[j]]
  IN filterBoolean(split(CollapseWs(rep, FALSE), SP))

\* part_002:153-160
keywordScore(candidate, intentKeywords, globalKeywords) ==
  LET candSet == Range(tokenize(candidate))
      hits(keys) == Cardinality({j \in 1..Len(keys) :
                       keys[j] # <<>> /\ toLowerCase(keys[j]) \in candSet})
  IN hits(intentKeywords) + hits(globalKeywords)

\* part_002:227-228  Math.max(0, Math.min(1, (L - 6) / 20)), in twentieths
lengthScore20(candidate) ==
  LET L == Len(filterBoolean(split(CollapseWs(candidate, FALSE), SP)))
  IN Max(0, Min(20, L - 6))

\* part_002:231-232
noveltyScore(candidate, prompt) ==
  IF candidate # <<>> /\ ~includes(toLowerCase(candidate), toLowerCase(trim(prompt)))
  THEN 1 ELSE 0

\* part_002:221-232  the terms of a score: kwScore, lengthScore (in twentieths)
\* and noveltyScore
scoreTerms(candidate, prompt, intentName) ==
  [kwScore       |-> keywordScore(candidate, intentNamed(intentName).keywords,
                                  globalKeysFlat),
   lengthScore20 |-> lengthScore20(candidate),
   noveltyScore  |-> noveltyScore(candidate, prompt)]

\* a combination that leaves the novelty term out
weightedNoNovelty(t) == t.kwScore * 20000 + t.lengthScore20 * 750

\* part_002:238  kwScore * 2 + lengthScore * 1.5 + noveltyScore * 1, in units
\* of 1/10000
weighted(t) == t.kwScore * 20000 + t.lengthScore20 * 750 + t.noveltyScore * 10000

\* part_002:221-232, 238  the score without its random term, in units of 1/10000
baseScore(candidate, prompt, intentName) ==
  weighted(scoreTerms(candidate, prompt, intentName))

\* part_002:220-239  rand is Math.random() * 0.2
scoreCandidate(candidate, prompt, intentName, rand) ==
  baseScore(candidate, prompt, intentName) + rand

\* Math.random() * 0.2 lies in [0, 0.2): the values drawn, in units of 1/10000
JitterValues == {0, 1999}

\* Number(x.toFixed(3)), in units of 1/1000
toFixed3(x) == (x + 5) \div 10

RECURSIVE insertDescBeforeTies(_, _)
\* a descending sort that puts x before the elements it ties with
insertDescBeforeTies(sorted, x) ==
  IF sorted = <<>> THEN <<x>>
  ELSE IF Head(sorted).score > x.score
       THEN <<Head(sorted)>> \o insertDescBeforeTies(Tail(sorted), x)
  ELSE <<x>> \o sorted

RECURSIVE insertDesc(_, _)
\* where a stable descending sort puts x among the already sorted
insertDesc(sorted, x) ==
  IF sorted = <<>> THEN <<x>>
  ELSE IF Head(sorted).score >= x.score THEN <<Head(sorted)>> \o insertDesc(Tail(sorted), x)
  ELSE <<x>> \o sorted

\* no sort at all
sortNone(a) == a

RECURSIVE sortDesc(_)
\* part_002:307  scored.sort((a,b) => b.score - a.score), a stable sort
sortDesc(a) ==
  IF a = <<>> THEN <<>> ELSE insertDesc(sortDesc(SubSeq(a, 1, Len(a) - 1)), a[Len(a)])

\* part_002:312  candidates[0]?.text || ""
chosenFirstPushed(candidates) == IF Len(cands) = 0 THEN <<>> ELSE cands[1].text
chosenOf(candidates) == IF Len(candidates) = 0 THEN <<>> ELSE candidates[1].text

\* part_002:303-305  the score terms of cands, without their random terms
candTerms == [j \in 1..Len(cands) |-> scoreTerms(cands[j].text, req.prompt, intent)]

\* part_002:303-312  rand[i] is the jitter drawn for cands[i]; each entry of
\* `scored' keeps the terms its score was computed from
rank(terms, rand) ==
  LET scored == [j \in 1..Len(cands) |->
                   [i |-> j - 1, label |-> cands[j].label, text |-> cands[j].text,
                    terms |-> terms[j],
                    score |-> weighted(terms[j]) + rand[j]]]
      sorted == sortDesc(scored)
      top    == slice(sorted, 0, 4)
      candidates == [j \in 1..Len(top) |->
                       [label |-> top[j].label, text |-> top[j].text,
                        score |-> toFixed3(top[j].score)]]
  IN [sent |-> TRUE, status |-> 200, intent |-> intent, candidates |-> candidates,
      chosenIndex |-> 0, chosen |-> chosenOf(candidates), scored |-> sorted]

(***************************************************************************)
(* part_002: the tasks of the event loop                                   *)
(***************************************************************************)
Prompts == {<<>>, s_x, s_a, s_ab, <<"A", " ", "b", " ">>, s_cd}

\* req.body.maxTokens as sent; 0 stands for an absent or falsy value
MaxTokensSent == {0, 1}

markovCap   == 40
exampleCap  == 20
fillerCap   == 16
maxTokensCap == 120
maxTokensDefault == 80
wantedCands == 4

unchangedStore ==
  UNCHANGED <<RAW, BRAIN, GLOBAL_KEYWORDS, MARKOV, console, lastDoc, reloads>>

MaxReloads == 2

\* part_002:319  the load at start-up
Startup(d) ==
  /\ pc = "init"
  /\ loadBrain(d)
  /\ pc' = "idle"
  /\ UNCHANGED <<reloads, req, intent, cands, walk, res>>

\* A file change delivered while a request handler is still running
watchFilePreempting(d) ==
  /\ pc # "init"
  /\ loadBrain(d)
  /\ reloads' = Min(reloads + 1, MaxReloads)
  /\ UNCHANGED <<pc, req, intent, cands, walk, res>>

\* part_002:321-324  the fs.watchFile callback, a task of its own
watchFile(d) ==
  /\ pc = "idle"
  /\ loadBrain(d)
  /\ reloads' = Min(reloads + 1, MaxReloads)
  /\ UNCHANGED <<pc, req, intent, cands, walk, res>>

\* part_002:335-339  POST /generate up to the call of createAndRankCandidates
postGenerate(prompt, sent) ==
  /\ pc = "idle"
  /\ req' = [prompt |-> prompt,
             maxTokens |-> Min(maxTokensCap, IF sent = 0 THEN maxTokensDefault ELSE sent)]
  /\ pc' = "detect"
  /\ unchangedStore
  /\ UNCHANGED <<intent, cands, walk, res>>

\* part_002:277-278
Detect ==
  /\ pc = "detect"
  /\ intent' = detectIntent(req.prompt)
  /\ cands' = <<>>
  /\ pc' = "genA"
  /\ unchangedStore
  /\ UNCHANGED <<req, walk, res>>

\* part_002:281-282
GenA ==
  /\ pc = "genA"
  /\ callMarkov("A", req.prompt, Min(markovCap, req.maxTokens), <<>>)
  /\ unchangedStore
  /\ UNCHANGED <<req, intent, res>>

\* part_002:285-286
GenB ==
  /\ pc = "genB"
  /\ LET B == templateJoiner(intent) IN
     cands' = IF B # <<>> THEN Append(cands, [label |-> "template", text |-> B]) ELSE cands
  /\ pc' = "genC"
  /\ unchangedStore
  /\ UNCHANGED <<req, intent, walk, res>>

\* part_002:289-290 with 194-199
GenC ==
  /\ pc = "genC"
  /\ LET ex == intentNamed(intent).examples IN
     IF Len(ex) = 0
     THEN /\ pc' = "genD"
          /\ UNCHANGED <<cands, walk>>
     ELSE \E j \in 1..Len(ex) :
            callMarkov("C", ex[j] \o <<SP>> \o req.prompt, exampleCap, ex[j])
  /\ unchangedStore
  /\ UNCHANGED <<req, intent, res>>

\* part_002:293-294
GenD ==
  /\ pc = "genD"
  /\ LET D == keywordSummary(intent) IN
     cands' = IF D # <<>> THEN Append(cands, [label |-> "summary", text |-> D]) ELSE cands
  /\ pc' = "fill"
  /\ unchangedStore
  /\ UNCHANGED <<req, intent, walk, res>>

\* A bug the loop does not have: stopping one candidate short
fillGuardShort == Len(cands) < wantedCands - 1

\* part_002:297  while (cands.length < 4)
fillGuard == Len(cands) < wantedCands

\* part_002:297-300  one iteration of the filler loop
Fill ==
  /\ pc = "fill"
  /\ fillGuard
  /\ \E more \in {t_more, <<>>} :
       callMarkov("F", req.prompt \o <<SP>> \o more, fillerCap, <<>>)
  /\ unchangedStore
  /\ UNCHANGED <<req, intent, res>>

\* part_002:303-312 and 340  score, sort, answer
Rank ==
  /\ pc = "fill"
  /\ ~fillGuard
  /\ \E terms \in {candTerms}, rand \in [1..Len(cands) -> JitterValues] :
       res' = rank(terms, rand)
  /\ pc' = "done"
  /\ unchangedStore
  /\ UNCHANGED <<req, intent, cands, walk>>

\* the handler has returned; its locals are gone
Respond ==
  /\ pc = "done"
  /\ pc' = "idle"
  /\ req' = NoReq
  /\ intent' = <<>>
  /\ cands' = <<>>
  /\ walk' = NoWalk
  /\ res' = NoRes
  /\ unchangedStore

Init ==
  /\ RAW = NullValue
  /\ BRAIN = EmptyBrain
  /\ GLOBAL_KEYWORDS = <<>>
  /\ MARKOV = EmptyMarkov
  /\ pc = "init"
  /\ console = "none"
  /\ lastDoc = FileUnreadable
  /\ reloads = 0
  /\ req = NoReq
  /\ intent = <<>>
  /\ cands = <<>>
  /\ walk = NoWalk
  /\ res = NoRes

Next ==
  \/ \E d \in Docs : Startup(d)
  \/ \E d \in Docs : watchFile(d)
  \/ \E p \in Prompts, sent \in MaxTokensSent : postGenerate(p, sent)
  \/ Detect
  \/ GenA
  \/ GenB
  \/ GenC
  \/ GenD
  \/ Fill
  \/ WalkPick
  \/ WalkReturn
  \/ Rank
  \/ Respond

Spec == Init /\ [][Next]_vars

(***************************************************************************)
(* server.js (Turbo V3): the loads                                         *)
(***************************************************************************)
\* server.js:610
StartupV3(d) ==
  /\ pc = "init"
  /\ safeLoadBrainV3(d)
  /\ pc' = "idle"
  /\ UNCHANGED <<reloads, req, intent, cands, walk, res>>

\* server.js:611-614
watchFileV3(d) ==
  /\ pc = "idle"
  /\ safeLoadBrainV3(d)
  /\ reloads' = Min(reloads + 1, MaxReloads)
  /\ UNCHANGED <<pc, req, intent, cands, walk, res>>

(***************************************************************************)
(* server.js (Turbo V3): POST /generate.  The handler's effects on the     *)
(* globals and the status of its response are modelled; the reply text is  *)
(* not: markovGenerate (server.js:407-437), pipe_summary, pipe_template    *)
(* and scoreCandidate read the globals and assign none.                    *)
(***************************************************************************)
maxTokensDefaultV3 == 60

RECURSIVE lastTriggered(_, _, _)
\* server.js:544-548  the last intent one of whose triggers occurs in lower
lastTriggered(lower, its, found) ==
  IF its = <<>> THEN found
  ELSE LET hit == \E j \in 1..Len(Head(its).triggers) :
                    includes(lower, toLowerCase(Head(its).triggers[j]))
       IN lastTriggered(lower, Tail(its), IF hit THEN Head(its).name ELSE found)

\* server.js:541-548
detectIntentV3(prompt) == lastTriggered(toLowerCase(prompt), BRAIN.intents, FALLBACK)

\* BRAIN.intents[intent] is undefined
intentMissingV3(name) == \A j \in 1..Len(BRAIN.intents) : BRAIN.intents[j].name # name

\* KEYWORDS[intent] || []
keywordsV3(name) ==
  LET hit == {j \in 1..Len(GLOBAL_KEYWORDS) : GLOBAL_KEYWORDS[j].name = name}
  IN IF hit = {} THEN <<>> ELSE GLOBAL_KEYWORDS[CHOOSE j \in hit : TRUE].words

\* the orders a sort with a random comparator can leave kw in
shuffles(kw) == {[j \in 1..Len(kw) |-> kw[p[j]]] : p \in Permutations(1..Len(kw))}

\* KEYWORDS with the array of `name' replaced by kw
withKeywordsV3(keywords, name, kw) ==
  [j \in 1..Len(keywords) |->
     IF keywords[j].name = name THEN [keywords[j] EXCEPT !.words = kw] ELSE keywords[j]]

\* server.js:442-449  kw.sort(...) sorts the array KEYWORDS[intent] in place;
\* BRAIN.keywords is the same object as KEYWORDS after a load that reached
\* line 368 and kept its BRAIN
keywordExpand(name) ==
  IF Len(keywordsV3(name)) = 0
  THEN UNCHANGED <<BRAIN, GLOBAL_KEYWORDS>>
  ELSE \E kw \in shuffles(keywordsV3(name)) :
         /\ GLOBAL_KEYWORDS' = withKeywordsV3(GLOBAL_KEYWORDS, name, kw)
         /\ BRAIN' = IF BRAIN.keywords = GLOBAL_KEYWORDS
                     THEN [BRAIN EXCEPT !.keywords = withKeywordsV3(@, name, kw)]
                     ELSE BRAIN

\* server.js:536-548
postGenerateV3(prompt, sent) ==
  /\ pc = "idle"
  /\ req' = [prompt |-> trim(prompt),
             maxTokens |-> Min(maxTokensCap, IF sent = 0 THEN maxTokensDefaultV3 ELSE sent)]
  /\ intent' = detectIntentV3(trim(prompt))
  /\ pc' = "pipe_example"
  /\ unchangedStore
  /\ UNCHANGED <<cands, walk, res>>

\* server.js:551 with 454-465: BRAIN.intents[intent].examples throws a
\* TypeError when the intent is no key of BRAIN.intents; the handler's catch
\* (573-575) answers 500
pipe_example ==
  /\ pc = "pipe_example"
  /\ IF intentMissingV3(intent)
     THEN /\ res' = [NoRes EXCEPT !.sent = TRUE, !.status = 500, !.intent = intent]
          /\ pc' = "done"
          /\ UNCHANGED <<BRAIN, GLOBAL_KEYWORDS>>
     ELSE /\ IF Len(intentNamed(intent).examples) = 0
             THEN UNCHANGED <<BRAIN, GLOBAL_KEYWORDS>>
             ELSE keywordExpand(intent)
          /\ pc' = "pipe_markov"
          /\ UNCHANGED res
  /\ UNCHANGED <<RAW, MARKOV, console, lastDoc, reloads, req, intent, cands, walk>>

\* server.js:552 with 470-476
pipe_markov ==
  /\ pc = "pipe_markov"
  /\ keywordExpand(intent)
  /\ pc' = "pick_best"
  /\ UNCHANGED <<RAW, MARKOV, console, lastDoc, reloads, req, intent, cands, walk, res>>

\* server.js:553-571  pipe_summary, pipe_template, the best candidate, res.json
pickBestV3 ==
  /\ pc = "pick_best"
  /\ res' = [NoRes EXCEPT !.sent = TRUE, !.status = 200, !.intent = intent]
  /\ pc' = "done"
  /\ unchangedStore
  /\ UNCHANGED <<req, intent, cands, walk>>

\* server.js:355-357  let BRAIN = null; let KEYWORDS = {}; let MARKOV = null
InitV3 ==
  /\ RAW = NullValue
  /\ BRAIN = NullBrain
  /\ GLOBAL_KEYWORDS = <<>>
  /\ MARKOV = NullMarkov
  /\ pc = "init"
  /\ console = "none"
  /\ lastDoc = FileUnreadable
  /\ reloads = 0
  /\ req = NoReq
  /\ intent = <<>>
  /\ cands = <<>>
  /\ walk = NoWalk
  /\ res = NoRes

NextV3 ==
  \/ \E d \in DocsV3 : StartupV3(d)
  \/ \E d \in DocsV3 : watchFileV3(d)
  \/ \E p \in Prompts, sent \in MaxTokensSent : postGenerateV3(p, sent)
  \/ pipe_example
  \/ pipe_markov
  \/ pickBestV3
  \/ Respond

SpecV3 == InitV3 /\ [][NextV3]_vars

(***************************************************************************)
(* server.js 627-833 (lightweight server): safeReadBrain,                  *)
(* buildMarkovFromBrain, generateFromMarkov, POST /generate                *)
(***************************************************************************)
\* server.js:711  "I don't know yet (em dash) try web search."
t_dontknow ==
  <<"I", " ", "d", "o", "n", "'", "t", " ", "k", "n", "o", "w",
    " ", "y", "e", "t", " ", "U+2014", " ", "t", "r", "y", " ", "w",
    "e", "b", " ", "s", "e", "a", "r", "c", "h", ".">>

\* server.js:741
t_notenough ==
  <<"I", " ", "d", "o", "n", "'", "t", " ", "h", "a", "v", "e",
    " ", "e", "n", "o", "u", "g", "h", " ", "d", "a", "t", "a",
    " ", "t", "o", " ", "c", "o", "m", "p", "o", "s", "e", " ",
    "a", " ", "r", "e", "p", "l", "y", " ", "y", "e", "t", ".">>

maxTokensDefaultLite == 40
continuationFloor    == 10

RECURSIVE feedIntentsLite(_, _)
\* server.js:701-704  triggers, then responses, of every intent
feedIntentsLite(map, intents) ==
  IF intents = <<>> THEN map
  ELSE feedIntentsLite(
         feedEachV1(feedEachV1(map, Head(intents).triggers), Head(intents).responses),
         Tail(intents))

\* server.js:681-707; feedText (685-698) is the feedText of part_000:62-74
buildMarkovFromBrain(brain) == Markov(feedIntentsLite(<<>>, intentsOf(brain)))

\* server.js:666-678
safeReadBrain(d) ==
  /\ lastDoc' = d
  /\ UNCHANGED <<RAW, GLOBAL_KEYWORDS>>
  /\ IF readThrows(d) \/ d.kind = "null" \/ buildThrows(d.brain)
     THEN /\ BRAIN' = EmptyBrain
          /\ MARKOV' = ObjectMarkov
          /\ console' = "error"
     ELSE /\ BRAIN' = d.brain
          /\ MARKOV' = buildMarkovFromBrain(d.brain)
          /\ console' = "log"

\* server.js:746
StartupLite(d) ==
  /\ pc = "init"
  /\ safeReadBrain(d)
  /\ pc' = "idle"
  /\ UNCHANGED <<reloads, req, intent, cands, walk, res>>

\* server.js:750-755
watchFileLite(d) ==
  /\ pc = "idle"
  /\ safeReadBrain(d)
  /\ reloads' = Min(reloads + 1, MaxReloads)
  /\ UNCHANGED <<pc, req, intent, cands, walk, res>>

\* server.js:772-775
postGenerateLite(prompt, sent) ==
  /\ pc = "idle"
  /\ req' = [prompt |-> prompt,
             maxTokens |-> Min(maxTokensCap,
                               IF sent = 0 THEN maxTokensDefaultLite ELSE sent)]
  /\ pc' = "route"
  /\ unchangedStore
  /\ UNCHANGED <<intent, cands, walk, res>>

\* server.js:778-784  the intents with a non-empty trigger that occurs in the
\* prompt and with at least one response
answering(lower) ==
  {j \in 1..Len(intentsOf(BRAIN)) :
     /\ Len(intentsOf(BRAIN)[j].responses) > 0
     /\ \E n \in 1..Len(intentsOf(BRAIN)[j].triggers) :
          /\ intentsOf(BRAIN)[j].triggers[n] # <<>>
          /\ includes(lower, toLowerCase(intentsOf(BRAIN)[j].triggers[n]))}

\* the least element of a non-empty set of numbers
Least(S) == CHOOSE x \in S : \A y \in S : x <= y

\* server.js:788 and 795  the reply built from generateFromMarkov's return g
replyLite(name, pick, g) ==
  IF name = FALLBACK THEN g
  ELSE pick \o (IF g # <<>> THEN <<NL>> \o g ELSE <<>>)

\* server.js:710-722  generateFromMarkov(seed, cap) up to its loop.  With a
\* plain object as map, map.size is undefined, the guard of line 711 is passed
\* and map.keys() or map.get() throws a TypeError; the handler's catch
\* (796-799) answers 500.
callLite(name, pick, seed, cap) ==
  IF MARKOV.isNull \/ (MARKOV.isMap /\ Len(MARKOV.map) = 0)
  THEN /\ res' = [NoRes EXCEPT !.sent = TRUE, !.status = 200, !.intent = name,
                               !.chosen = replyLite(name, pick, t_dontknow)]
       /\ pc' = "done"
       /\ walk' = NoWalk
  ELSE IF ~MARKOV.isMap
  THEN /\ res' = [NoRes EXCEPT !.sent = TRUE, !.status = 500, !.intent = name]
       /\ pc' = "done"
       /\ walk' = NoWalk
  ELSE /\ \E k \in startKeys(seed) :
            walk' = [key |-> k, out |-> <<>>, i |-> 0, max |-> cap, seed |-> pick]
       /\ pc' = "walkLite"
       /\ UNCHANGED res

\* server.js:776-794
routeLite ==
  /\ pc = "route"
  /\ \E hits \in {answering(toLowerCase(req.prompt))} :
       IF hits = {}
       THEN /\ intent' = FALLBACK
            /\ callLite(FALLBACK, <<>>, req.prompt, req.maxTokens)
       ELSE \E it \in {intentsOf(BRAIN)[Least(hits)]} :
              \E n \in 1..Len(it.responses) :
                /\ intent' = it.name
                /\ callLite(it.name, it.responses[n], it.responses[n],
                            Max(continuationFloor, req.maxTokens \div 3))
  /\ unchangedStore
  /\ UNCHANGED <<req, cands>>

\* server.js:726-737  one iteration that pushes a pick
LitePick ==
  /\ pc = "walkLite"
  /\ walkGuard(walk)
  /\ \E j \in 1..Len(choicesOf(walk.key)) :
       /\ choicesOf(walk.key)[j] # END
       /\ walk' = [walk EXCEPT !.out = Append(@, choicesOf(walk.key)[j]),
                               !.key = slideKey(walk.key, choicesOf(walk.key)[j]),
                               !.i = @ + 1]
  /\ unchangedStore
  /\ UNCHANGED <<pc, req, intent, cands, res>>

PunctChars == {".", ",", "!", "?", ";", ":"}

\* s[i] is not part of a whitespace run that a punctuation mark follows
keptByTidy(s, i) ==
  \/ s[i] \notin WS
  \/ LET after == {j \in i..Len(s) : s[j] \notin WS}
     IN after = {} \/ s[Least(after)] \notin PunctChars

RECURSIVE tidyRange(_, _, _)
\* the kept characters of s[lo..hi], in order
tidyRange(s, lo, hi) ==
  IF lo > hi THEN <<>>
  ELSE IF lo = hi THEN (IF keptByTidy(s, lo) THEN <<s[lo]>> ELSE <<>>)
  ELSE tidyRange(s, lo, (lo + hi) \div 2) \o tidyRange(s, (lo + hi) \div 2 + 1, hi)

\* server.js:740  .replace(/\s+([.,!?;:])/g, "$1")
tidyPunct(s) == tidyRange(s, 1, Len(s))

\* server.js:726-742 and 788, 795  the loop ends; the sentence or the sentinel
\* is returned and sent
LiteReturn ==
  /\ pc = "walkLite"
  /\ \/ ~walkGuard(walk)
     \/ Len(choicesOf(walk.key)) = 0
     \/ \E j \in 1..Len(choicesOf(walk.key)) : choicesOf(walk.key)[j] = END
  /\ \E joined \in {join(walk.out, <<SP>>)} : \E sentence \in {trim(tidyPunct(joined))} :
       res' = [NoRes EXCEPT
                 !.sent = TRUE, !.status = 200, !.intent = intent,
                 !.chosen = replyLite(intent, walk.seed,
                                      IF sentence = <<>> THEN t_notenough ELSE sentence)]
  /\ pc' = "done"
  /\ walk' = NoWalk
  /\ unchangedStore
  /\ UNCHANGED <<req, intent, cands>>

\* server.js:663-664  let BRAIN = null; let MARKOV = null
InitLite ==
  /\ RAW = NullValue
  /\ BRAIN = NullBrain
  /\ GLOBAL_KEYWORDS = <<>>
  /\ MARKOV = NullMarkov
  /\ pc = "init"
  /\ console = "none"
  /\ lastDoc = FileUnreadable
  /\ reloads = 0
  /\ req = NoReq
  /\ intent = <<>>
  /\ cands = <<>>
  /\ walk = NoWalk
  /\ res = NoRes

NextLite ==
  \/ \E d \in Docs : StartupLite(d)
  \/ \E d \in Docs : watchFileLite(d)
  \/ \E p \in Prompts, sent \in MaxTokensSent : postGenerateLite(p, sent)
  \/ routeLite
  \/ LitePick
  \/ LiteReturn
  \/ Respond

SpecLite == InitLite /\ [][NextLite]_vars

(***************************************************************************)
(* The model builders as functions of a corpus                             *)
(***************************************************************************)
MaxWords    == 2
MaxExamples == 2

BuildTokens == {s_a, s_b}

\* the example texts: up to MaxWords tokens, and one with untidy whitespace
BuildTexts ==
  {join(w, <<SP>>) : w \in UNION {[1..n -> BuildTokens] : n \in 1..MaxWords}}
    \cup {<<SP, "a", NL, SP, "b", SP>>}

\* corpora of one intent: up to MaxExamples examples, with or without a response
Corpora ==
  {Brain(TRUE, <<Intent(s_g, <<>>, <<>>, ex, rs)>>, <<>>, <<>>) :
     ex \in UNION {[1..n -> BuildTexts] : n \in 0..MaxExamples},
     rs \in {<<>>, <<s_ab>>}}

InitBuild ==
  /\ RAW = NullValue
  /\ BRAIN \in Corpora
  /\ GLOBAL_KEYWORDS = <<>>
  /\ MARKOV = EmptyMarkov
  /\ pc = "corpus"
  /\ console = "none"
  /\ lastDoc = FileUnreadable
  /\ reloads = 0
  /\ req = NoReq
  /\ intent = <<>>
  /\ cands = <<>>
  /\ walk = NoWalk
  /\ res = NoRes

unchangedButModel ==
  UNCHANGED <<RAW, BRAIN, GLOBAL_KEYWORDS, console, lastDoc, reloads, req, intent,
              cands, walk, res>>

\* part_002:63
BuildPipeline ==
  /\ pc = "corpus"
  /\ MARKOV' = buildMarkovFromExamples(BRAIN)
  /\ pc' = "pipeline"
  /\ unchangedButModel

\* part_000:48
BuildV1 ==
  /\ pc = "corpus"
  /\ MARKOV' = buildMarkovV1(BRAIN)
  /\ pc' = "v1"
  /\ unchangedButModel

\* server.js:369
BuildV3 ==
  /\ pc = "corpus"
  /\ MARKOV' = buildMarkovV3(BRAIN)
  /\ pc' = "v3"
  /\ unchangedButModel

NextBuild == BuildPipeline \/ BuildV1 \/ BuildV3

SpecBuild == InitBuild /\ [][NextBuild]_vars

(***************************************************************************)
(* part_002: loadBrain on a document and on the same document under `brain` *)
(***************************************************************************)
\* keywords_global of the documents: absent, or {"k":["d"]}
KeywordMaps == {<<>>, <<[name |-> s_k, words |-> <<s_d>>]>>}

\* documents: a corpus with or without keywords_global
LoadBrains ==
  {Brain(TRUE, b.intents, kg, <<>>) : b \in Corpora, kg \in KeywordMaps}

unchangedRequest == UNCHANGED <<reloads, req, intent, cands, walk, res>>

\* part_002:57-72 on the file {"intents": ..., "keywords_global": ...}
LoadPlain(b) ==
  /\ loadBrain(FileObject(b))
  /\ pc' = "plain"
  /\ unchangedRequest

\* part_002:57-72 on the file {"brain": <the document just loaded>}
LoadWrapped ==
  /\ pc = "plain"
  /\ loadBrain(FileWrapped(lastDoc.brain, <<>>))
  /\ pc' = "wrapped"
  /\ unchangedRequest

InitLoad ==
  /\ RAW = NullValue
  /\ BRAIN = EmptyBrain
  /\ GLOBAL_KEYWORDS = <<>>
  /\ MARKOV = EmptyMarkov
  /\ pc = "init"
  /\ console = "none"
  /\ lastDoc = FileUnreadable
  /\ reloads = 0
  /\ req = NoReq
  /\ intent = <<>>
  /\ cands = <<>>
  /\ walk = NoWalk
  /\ res = NoRes

NextLoad == (\E b \in LoadBrains : LoadPlain(b)) \/ LoadWrapped

SpecLoad == InitLoad /\ [][NextLoad]_vars

(***************************************************************************)
(* Properties                                                              *)
(***************************************************************************)
\* the live snapshot: Brain, global keywords, Model
Snapshot == <<BRAIN, GLOBAL_KEYWORDS, MARKOV>>

\* a /generate handler is on the stack
InRequest == pc \notin {"init", "idle"}

\* C1 (as claimed): a reload that reads a malformed brain.json leaves the
\* snapshot exactly as it was and reports an error.  A step from idle to idle
\* is a run of the fs.watchFile callback.
C1_MalformedReloadKeepsSnapshot ==
  [][(pc = "idle" /\ pc' = "idle" /\ lastDoc' = FileMalformed)
       => (Snapshot' = Snapshot /\ console' = "error")]_vars

\* C2 (as claimed, for Turbo V3): whenever no load is running, the live Model
\* holds exactly the transitions built from the live Brain.
C2_ModelBuiltFromBrain ==
  pc = "idle" => MARKOV.map = buildMarkovV3(BRAIN).map

\* C3: from its first step to its last a /generate request sees one snapshot:
\* no step taken while the handler runs changes Brain, global keywords or
\* Model, and the Model it reads is the one built from the Brain it reads.
C3_RequestReadsOneSnapshot ==
  /\ [](InRequest => MARKOV = Markov(feedIntents(<<>>, intentsOf(BRAIN))))
  /\ [][InRequest => Snapshot' = Snapshot]_vars

\* a request answered after at least one reload
C3_Witness == pc = "done" /\ reloads >= 1 /\ Len(res.candidates) = 4 /\ ~markovEmpty

\* C4: the chosen text is the text of candidates[chosenIndex] of the same result.
C4_ChosenIsReturnedCandidate ==
  pc = "done" =>
    /\ res.chosenIndex \in 0..(Len(res.candidates) - 1)
    /\ res.chosen = res.candidates[res.chosenIndex + 1].text

\* a result whose top candidate is not the one generated first
C4_Witness == pc = "done" /\ res.chosen # cands[1].text /\ res.chosen # <<>>

\* the replies the pipeline gives to the empty prompt when no intent exists:
\* the filler for the empty prompt, or the template of the global keywords
NoDataReplies == {t_think} \cup ({templateJoiner(FALLBACK)} \ {<<>>})

\* C5 (as claimed): with zero intents the reply is a fixed text, the one given
\* to the empty prompt, whatever the prompt.
C5_ZeroIntentsFixedReply ==
  (pc = "done" /\ Len(intentsOf(BRAIN)) = 0) => res.chosen \in NoDataReplies

\* no trigger, intent keyword or global keyword occurs in the lower-cased prompt
NoOverlap(prompt) ==
  LET t == toLowerCase(prompt)
      misses(keys) == \A j \in 1..Len(keys) : ~includes(t, toLowerCase(keys[j]))
  IN /\ \A j \in 1..Len(intentsOf(BRAIN)) :
          /\ misses(intentsOf(BRAIN)[j].triggers)
          /\ misses(intentsOf(BRAIN)[j].keywords)
     /\ misses(globalKeysFlat)

\* C6 (as claimed): a prompt that overlaps no intent is routed to "fallback".
C6_NoOverlapIsFallback ==
  (pc \notin {"init", "idle", "detect"} /\ NoOverlap(req.prompt)) => intent = FALLBACK

\* next follows the context key somewhere in a padded training sequence of brain
Observed(brain, key, next) ==
  \E j \in 1..Len(intentsOf(brain)) :
    LET it    == intentsOf(brain)[j]
        texts == IF Len(it.examples) = 0 THEN it.responses ELSE it.examples
    IN \E e \in 1..Len(texts) :
         LET pad == <<START>> \o Words(texts[e]) \o <<END>> IN
         \E i \in 1..(Len(pad) - order) :
           /\ join(SubSeq(pad, i, i + order - 1), <<SEP>>) = key
           /\ pad[i + order] = next

\* C7 (as claimed): every next-token of the built model was observed after its
\* context in a padded training sequence.
C7_OnlyObservedTransitions ==
  pc \in {"pipeline", "v1", "v3"} =>
    \A j \in 1..Len(MARKOV.map) : \A n \in 1..Len(MARKOV.map[j].choices) :
      Observed(BRAIN, MARKOV.map[j].key, MARKOV.map[j].choices[n])

\* C8: every context key of the live model has exactly `order` tokens and at
\* least one next-token.
C8_KeysWellFormed ==
  \A j \in 1..Len(MARKOV.map) :
    /\ Len(split(MARKOV.map[j].key, SEP)) = order
    /\ Len(MARKOV.map[j].choices) >= 1

\* a model of several contexts published by a reload
C8_Witness == pc = "idle" /\ reloads >= 1 /\ console = "log" /\ Len(MARKOV.map) >= 4

\* C9: after a successful load the snapshot is the one the loaded file alone
\* determines: its brain, its keywords_global and the model fed from an empty
\* map with its intents.
C9_SnapshotFromBytesOnly ==
  console = "log" =>
    Snapshot = <<lastDoc.brain, rawKeywordsGlobal(lastDoc),
                 Markov(feedIntents(<<>>, intentsOf(lastDoc.brain)))>>

\* a second reload has replaced a non-empty model by another
C9_Witness == pc = "idle" /\ reloads >= 2 /\ console = "log" /\ lastDoc = DocShort

\* the handler is between its first statement and its answer
Running == pc \notin {"init", "idle", "done"}

\* the running handler can take its next step.  GenC and Rank have no guard
\* but the ones written out here; the other steps are asked of the actions.
StepReady ==
  \/ ENABLED (Detect \/ GenA \/ GenB \/ GenD \/ Fill \/ WalkPick \/ WalkReturn)
  \/ pc = "genC"
  \/ pc = "fill" /\ ~fillGuard

\* picks the running walk may still make
picksLeft == Max(0, walk.max - walk.i)

\* steps one filler iteration may take
fillSpan == fillerCap + 2

\* an upper bound on the steps the handler can still take
Measure ==
  LET fills == wantedCands * fillSpan + 1 IN
  CASE pc = "fill"   -> Max(0, wantedCands - Len(cands)) * fillSpan + 1
    [] pc = "walkF"  -> Max(0, wantedCands - Len(cands) - 1) * fillSpan + 2 + picksLeft
    [] pc = "genD"   -> fills + 1
    [] pc = "walkC"  -> fills + 2 + picksLeft
    [] pc = "genC"   -> fills + 3 + exampleCap
    [] pc = "genB"   -> fills + 4 + exampleCap
    [] pc = "walkA"  -> fills + 5 + exampleCap + picksLeft
    [] pc = "genA"   -> fills + 6 + exampleCap + markovCap
    [] pc = "detect" -> fills + 7 + exampleCap + markovCap
    [] OTHER         -> 0

\* C10: Generate terminates: a running handler can always take a step, every
\* step lowers a natural-number measure, a walk never makes more picks than
\* its token budget, and the filler loop never leaves more than four candidates.
C10_GenerateTerminates ==
  /\ [](Running => /\ StepReady
                   /\ walk.i <= Max(0, walk.max)
                   /\ Len(walk.out) = walk.i
                   /\ Len(cands) <= wantedCands)
  /\ [][Running => Measure' < Measure]_vars

\* a filler walk that has used its whole budget of 16 picks
C10_Witness == pc = "walkF" /\ walk.i = fillerCap /\ Len(walk.out) = fillerCap

\* C11: the handler ranks every candidate of the request, the ranked list and
\* the returned list are in non-increasing score order, and the chosen text
\* is that of a candidate whose score no other candidate exceeds.
C11_ChosenHasTopScore ==
  pc = "done" =>
    /\ Len(res.scored) = Len(cands)
    /\ \A k \in 1..Len(cands) :
         \E j \in 1..Len(res.scored) :
           res.scored[j].i = k - 1 /\ res.scored[j].text = cands[k].text
    /\ \A j \in 1..(Len(res.scored) - 1) : res.scored[j].score >= res.scored[j + 1].score
    /\ \A j \in 1..(Len(res.candidates) - 1) :
         res.candidates[j].score >= res.candidates[j + 1].score
    /\ \A j \in 1..Len(res.scored) : res.scored[1].score >= res.scored[j].score
    /\ res.chosen = res.scored[1].text

\* the sort moved a strictly better candidate in front of the one pushed first
C11_Witness ==
  /\ pc = "done"
  /\ res.scored[1].i # 0
  /\ res.scored[1].score > res.scored[2].score
  /\ res.scored[3].score > res.scored[4].score

\* generator priority: markov > template > example+continuation > summary/filler
labelPriority(label) ==
  CASE label = "markov"       -> 1
    [] label = "template"     -> 2
    [] label = "example+cont" -> 3
    [] label = "summary"      -> 4
    [] label = "filler"       -> 4

\* C12: candidates with exactly equal scores are ranked in generator priority
\* order (the order they were pushed in), so among equal top scores the chosen
\* one is the one of highest priority.
C12_TiesInPriorityOrder ==
  pc = "done" =>
    \A j \in 1..Len(res.scored) : \A k \in (j + 1)..Len(res.scored) :
      res.scored[j].score = res.scored[k].score =>
        /\ res.scored[j].i < res.scored[k].i
        /\ labelPriority(res.scored[j].label) <= labelPriority(res.scored[k].label)

\* the two top candidates tie and come from different generators
C12_Witness ==
  /\ pc = "done"
  /\ res.scored[1].score = res.scored[2].score
  /\ labelPriority(res.scored[1].label) < labelPriority(res.scored[2].label)
  /\ res.chosen = res.scored[1].text

\* C13: of two candidates with equal keyword overlap and equal length
\* preference, one that contains the trimmed prompt (novelty term 0) never
\* ranks above one that does not (novelty term 1), whatever the two jitter
\* values.
C13_EchoNeverOutranks ==
  pc = "done" =>
    \A j \in 1..Len(res.scored) : \A k \in 1..Len(res.scored) :
      ( /\ res.scored[j].terms.noveltyScore = 0
        /\ res.scored[k].terms.noveltyScore = 1
        /\ res.scored[j].terms.kwScore = res.scored[k].terms.kwScore
        /\ res.scored[j].terms.lengthScore20 = res.scored[k].terms.lengthScore20 )
      => k < j

\* an echoing candidate drew the largest jitter, a novel one of equal overlap
\* and length the smallest, and the novel one still ranks first
C13_Witness ==
  /\ pc = "done"
  /\ \E j \in 1..Len(res.scored) : \E k \in 1..Len(res.scored) :
       /\ res.scored[j].terms.noveltyScore = 0
       /\ res.scored[j].text # <<>>
       /\ res.scored[k].terms.noveltyScore = 1
       /\ res.scored[j].terms.kwScore = res.scored[k].terms.kwScore
       /\ res.scored[j].terms.lengthScore20 = res.scored[k].terms.lengthScore20
       /\ res.scored[k].score - res.scored[j].score < 10000
       /\ k < j

\* C14 (as claimed, for Turbo V3): a request whose detected intent is no key
\* of the Brain, or whose intent lacks triggers, keywords or examples, is
\* answered without a failure.
C14_GeneratorsTolerateMissingData ==
  (pc = "done" /\ (intentMissingV3(res.intent) \/ Len(keywordsV3(res.intent)) = 0))
    => res.status = 200

\* C15 (as claimed, for Turbo V3): a load of a valid document without an
\* `intents' field reports no error and publishes zero intents and an empty
\* model.
C15_NoIntentsFieldLoads ==
  (pc = "idle" /\ lastDoc.kind = "object" /\ ~lastDoc.brain.hasIntents)
    => (console = "log" /\ Len(BRAIN.intents) = 0 /\ MARKOV.map = <<>>)

\* C18 (as claimed, for Turbo V3): no step of a /generate request changes the
\* Brain, the keywords or the Model, the order of their sequences included.
C18_GenerateLeavesStoreUnchanged ==
  [][(pc \notin {"init", "idle"} \/ pc' \notin {"init", "idle"})
       => Snapshot' = Snapshot]_vars

\* C17 (as claimed, for the lightweight server): a request served after a
\* failed load is answered without a failure, with the fixed reply for an
\* empty model.
C17_SafeDefaultAfterFailedLoad ==
  (pc = "done" /\ console = "error") => (res.status = 200 /\ res.chosen = t_dontknow)

\* C16 (as claimed): a document wrapped under `brain` loads to the snapshot
\* the same document loads to unwrapped: same Brain, same global keywords,
\* same Model.  The step from "plain" to "wrapped" reloads the document just
\* loaded, now under a `brain` key.
C16_WrappedLoadsSameSnapshot ==
  [][(pc = "plain" /\ pc' = "wrapped") => Snapshot' = Snapshot]_vars

\* part_002:121  the context made of the last `order` tokens of the prompt
seedKey(prompt) ==
  LET tokens == Words(prompt) IN
  join(SubSeq(tokens, Len(tokens) - order + 1, Len(tokens)), <<SEP>>)

\* C19 (as claimed): when generateMarkov(req.prompt) starts its loop for a
\* prompt of at least `order` tokens whose last `order` tokens are not a key
\* of the Model, the walk starts from a context beginning with ^START.
C19_UnseenContextFallsBack ==
  (/\ pc = "walkA"
   /\ walk.i = 0
   /\ Len(Words(req.prompt)) >= order
   /\ ~mapHas(MARKOV.map, seedKey(req.prompt)))
    => startsWith(walk.key, START)

\* the step is one iteration of the walk that emits a token
EmitStep == pc \in WalkPcs /\ pc' = pc /\ walk'.i = walk.i + 1

\* the token emitted by the step
emitted == walk'.out[Len(walk'.out)]

\* "^START" SEP "a":  the context (^START, a) of the corpus "a b c", "a b d"
startOfGreet == START \o <<SEP>> \o s_a

\* C20: at every step of a Markov walk the emitted token is in the Model's
\* next-token list of the current context, the next context is the current
\* one without its first token and with the emitted token appended, the
\* window (context, emitted token) is a trigram of a padded training text,
\* and from the context (^START, a) of the corpus "a b c", "a b d" only "b"
\* is emitted.
C20_WalkFollowsModel ==
  [][EmitStep =>
       /\ emitted \in Range(mapGet(MARKOV.map, walk.key))
       /\ LET parts == split(walk.key, SEP) IN
          walk'.key = join(SubSeq(parts, 2, Len(parts)) \o <<emitted>>, <<SEP>>)
       /\ Observed(BRAIN, walk.key, emitted)
       /\ (lastDoc = DocGreet /\ walk.key = startOfGreet) => emitted = s_b]_vars

\* a walk over the corpus "a b c", "a b d" that started at (^START, a) and
\* has emitted "b" and then a second token
C20_Witness ==
  /\ pc \in WalkPcs
  /\ lastDoc = DocGreet
  /\ Len(walk.out) >= 2
  /\ walk.out[1] = s_b
  /\ walk.out[2] \in {s_c, s_d}

\* C21: every answer of createAndRankCandidates returns exactly four
\* candidates, each with a non-empty text.
C21_FourNonEmptyCandidates ==
  (pc = "done" /\ res.status = 200) =>
    /\ Len(res.candidates) = wantedCands
    /\ \A j \in 1..Len(res.candidates) : res.candidates[j].text # <<>>

\* an answer for a loaded corpus whose strategies gave three texts, completed
\* by one filler
C21_Witness ==
  /\ pc = "done"
  /\ Cardinality({j \in 1..Len(res.candidates) : res.candidates[j].label = "filler"}) = 1
  /\ \E j \in 1..Len(res.candidates) : res.candidates[j].label = "markov"

\* C23 (as claimed): in the ranking of an answer no candidate stands below a
\* candidate with a smaller jitter-free score.
C23_JitterOnlyBreaksTies ==
  pc = "done" =>
    \A a \in 1..Len(res.scored) : \A b \in (a + 1)..Len(res.scored) :
      weighted(res.scored[a].terms) >= weighted(res.scored[b].terms)

\* C24 (as claimed): the length term of a ranked candidate is zero when the
\* candidate has fewer than 6 or more than 26 words.
C24_LengthTermZeroOutsideBand ==
  pc = "done" =>
    \A j \in 1..Len(res.scored) :
      LET L == Len(Words(res.scored[j].text)) IN
      /\ (L < 6 \/ L > 26) => res.scored[j].terms.lengthScore20 = 0
      /\ res.scored[j].terms.lengthScore20 \in 0..20

\* 5 per matching trigger, 2 per matching intent keyword, 1 per matching
\* global keyword, for the j-th intent of the Brain and the request's prompt
claimedScore(j) ==
  LET t  == toLowerCase(req.prompt)
      it == intentsOf(BRAIN)[j]
  IN 5 * CountIncluded(t, it.triggers) + 2 * CountIncluded(t, it.keywords)
       + 1 * CountIncluded(t, globalKeysFlat)

\* C22: the intent detected for a request is the first intent, in the Brain's
\* iteration order, whose score is maximal among all intents; prompt and
\* Brain determine it.
C22_DetectIntentFirstMaximal ==
  (pc = "genA" /\ Len(intentsOf(BRAIN)) > 0) =>
    \E j \in 1..Len(intentsOf(BRAIN)) :
      /\ intent = intentsOf(BRAIN)[j].name
      /\ \A k \in 1..Len(intentsOf(BRAIN)) : claimedScore(k) <= claimedScore(j)
      /\ \A k \in 1..(j - 1) : claimedScore(k) < claimedScore(j)

\* two intents tie for the maximal score and the first one is detected
C22_Witness ==
  /\ pc = "genA"
  /\ Len(intentsOf(BRAIN)) >= 2
  /\ claimedScore(1) = claimedScore(2)
  /\ intent = intentsOf(BRAIN)[1].name

====
